---- MODULE Spec2Model ----
(***************************************************************************)
(* etc-passwd: Passwd::from_name, Passwd::from_uid, Passwd::current_user   *)
(* and the retry/grow/classify loop getpw_r around getpwnam_r/getpwuid_r.  *)
(*                                                                         *)
(* getpw_r discards the value the primitive returns (lib.rs 131-139) and,  *)
(* when the result pointer is null, classifies the process-wide errno      *)
(* (lib.rs 146-147).  The model therefore keeps errno as state, and keeps  *)
(* the code a primitive call reports apart from the errno it leaves.       *)
(***************************************************************************)
EXTENDS Integers, Sequences, FiniteSets, TLC

(* ---------------- error codes (libc) ---------------- *)
EPERM == 1
ENOENT == 2
ESRCH == 3
EINTR == 4
EIO == 5
EBADF == 9
ERANGE == 34

\* the arm `0 | ENOENT | ESRCH | EBADF | EPERM` of the match
NotFoundFamily == {0, EPERM, ENOENT, ESRCH, EBADF}
Transient == {EINTR, ERANGE}
\* codes of the `_` arm that the modelled provider may report
FatalCodes == {EIO}

\* codes an operation before a lookup may have left in errno
StaleCodes == {0, EINTR, EIO, ERANGE}

(* ---------------- bounds ---------------- *)
\* width of usize in the model; isize::MAX = 2^(WordBits-1) - 1
WordBits == 12
\* primitive calls one lookup may make before the model stops following it
MaxCalls == 4

RECURSIVE Pow2(_)
Pow2(n) == IF n = 0 THEN 1 ELSE 2 * Pow2(n - 1)

UsizeModulus == Pow2(WordBits)
IsizeMax == Pow2(WordBits - 1) - 1

Max(a, b) == IF a >= b THEN a ELSE b

(* ---------------- the account database behind the primitive ---------------- *)
\* One entry: the seven fields, and `need`, the scratch size the provider
\* requires to hand the entry out (it answers ERANGE below that).
Root == [name |-> <<1>>, passwd |-> <<9>>, uid |-> 0, gid |-> 0,
         gecos |-> <<>>, dir |-> <<2>>, shell |-> <<3>>, need |-> 20]
Alice == [name |-> <<1, 2>>, passwd |-> <<9>>, uid |-> 1, gid |-> 2,
          gecos |-> <<4>>, dir |-> <<2, 1>>, shell |-> <<3>>, need |-> 600]

Databases == {<<Root>>, <<Root, Alice>>}

\* keys the callers try; uid 3 stands for an id that no database assigns
Uids == {0, 1, 3}
\* byte strings handed to CString::new; <<1, 0, 2>> has an embedded NUL
NameInputs == {<<>>, <<1>>, <<1, 2>>, <<1, 0, 2>>}
\* values sysconf(_SC_GETPW_R_SIZE_MAX) may return
Hints == {-1, 100, 1024}
\* how the C library treats errno in getpw*_r: set to the returned code on
\* every return, only when the code is nonzero, or left untouched
Libcs == {"always", "nonzero", "never"}

(* ---------------- values ---------------- *)
NoRec == [name |-> <<>>, passwd |-> <<>>, uid |-> 0, gid |-> 0,
          gecos |-> <<>>, dir |-> <<>>, shell |-> <<>>]
Zeroed == [pw_name |-> 0, pw_passwd |-> 0, pw_uid |-> 0, pw_gid |-> 0,
           pw_gecos |-> 0, pw_dir |-> 0, pw_shell |-> 0]

Pending == [kind |-> "Pending", code |-> 0, rec |-> NoRec]
OkSome(r) == [kind |-> "Some", code |-> 0, rec |-> r]
OkNone == [kind |-> "None", code |-> 0, rec |-> NoRec]
Err(c) == [kind |-> "Err", code |-> c, rec |-> NoRec]
NulError == [kind |-> "NulError", code |-> 0, rec |-> NoRec]
Panic == [kind |-> "Panic", code |-> 0, rec |-> NoRec]

NoKey == [name |-> <<>>, uid |-> 0, t |-> "none"]
UidKey(u) == [name |-> <<>>, uid |-> u, t |-> "uid"]
NameKey(mem) == [name |-> mem, uid |-> 0, t |-> "name"]

NoResp == [code |-> 0, found |-> FALSE, entry |-> NoRec, made |-> FALSE]

VARIABLES
    \* the environment: database, the code it reports for a missing key, the
    \* C library's treatment of errno, the size hint, the process's uid
    db, nfCode, libcKind, hint, myUid,
    \* the process-wide error indicator
    errno,
    \* the running lookup: where it is, its entry point and argument, and the
    \* locals of getpw_r
    pc, entry, input, key, amt, cap, buf, passwd, result,
    \* history of the running lookup: primitive calls made, the last answer,
    \* the errno value last classified, the codes answered so far (-1 for a
    \* success), whether every answer came from the database undisturbed,
    \* and errno as it was when the lookup began
    calls, lastResp, classified, hist, clean, errno0,
    \* the arguments of the calls of the running lookup: the buffer length
    \* passed at each call, and the requested size amt at the latest call
    lens, amtAtCall,
    \* history across lookups: the key and the result of the first lookup of
    \* the process that completed undisturbed
    firstKey, firstResult

vars == <<db, nfCode, libcKind, hint, myUid, errno,
          pc, entry, input, key, amt, cap, buf, passwd, result,
          calls, lastResp, classified, hist, clean, errno0,
          lens, amtAtCall, firstKey, firstResult>>

histVars == <<firstKey, firstResult>>

envVars == <<db, nfCode, libcKind, hint, myUid>>

Init ==
    /\ db \in Databases
    /\ nfCode \in {0, ENOENT}
    /\ libcKind \in Libcs
    /\ hint \in Hints
    /\ myUid \in {0, 3}
    /\ errno = 0
    /\ pc = "idle"
    /\ entry = "none"
    /\ input = <<>>
    /\ key = NoKey
    /\ amt = 0
    /\ cap = 0
    /\ buf = <<>>
    /\ passwd = Zeroed
    /\ calls = 0
    /\ lastResp = NoResp
    /\ classified = -1
    /\ result = Pending
    /\ hist = <<>>
    /\ clean = TRUE
    /\ errno0 = 0
    /\ lens = <<>>
    /\ amtAtCall = 0
    /\ firstKey = NoKey
    /\ firstResult = Pending

(* ---------------- pure functions ---------------- *)
Range(s) == {s[i] : i \in 1..Len(s)}

\* Classify with the buffer-too-small arm lost: ERANGE falls to the `_` arm
Classify_range_fatal(e) ==
    CASE e = EINTR -> "retry"
      [] e \in NotFoundFamily -> "none"
      [] OTHER -> "err"

\* match errno { ... } of getpw_r
Classify(e) ==
    CASE e = EINTR -> "retry"
      [] e = ERANGE -> "grow"
      [] e \in NotFoundFamily -> "none"
      [] OTHER -> "err"

\* CString_new without the interior-NUL check
CString_new_unchecked(bytes) == [mem |-> bytes \o <<0>>, ok |-> TRUE]

\* CString::new: a byte string with an interior NUL is refused; otherwise the
\* bytes are stored followed by the terminator
CString_new(bytes) ==
    IF 0 \in Range(bytes)
    THEN [mem |-> <<>>, ok |-> FALSE]
    ELSE [mem |-> bytes \o <<0>>, ok |-> TRUE]

\* CStr::from_ptr(p).to_owned(): the bytes of mem from p up to the first NUL
RECURSIVE CStr_from_ptr(_, _)
CStr_from_ptr(mem, p) ==
    IF p < 1 \/ p > Len(mem) \/ mem[p] = 0
    THEN <<>>
    ELSE <<mem[p]>> \o CStr_from_ptr(mem, p + 1)

\* from_c_struct with the home directory and the shell taken from each
\* other's pointer
from_c_struct_swapped(pw, mem) ==
    [name |-> CStr_from_ptr(mem, pw.pw_name),
     passwd |-> CStr_from_ptr(mem, pw.pw_passwd),
     uid |-> pw.pw_uid,
     gid |-> pw.pw_gid,
     gecos |-> CStr_from_ptr(mem, pw.pw_gecos),
     dir |-> CStr_from_ptr(mem, pw.pw_shell),
     shell |-> CStr_from_ptr(mem, pw.pw_dir)]

\* Passwd::from_c_struct: every text field copied out of the scratch memory
\* its pointer refers to, the two ids copied by value
from_c_struct(pw, mem) ==
    [name |-> CStr_from_ptr(mem, pw.pw_name),
     passwd |-> CStr_from_ptr(mem, pw.pw_passwd),
     uid |-> pw.pw_uid,
     gid |-> pw.pw_gid,
     gecos |-> CStr_from_ptr(mem, pw.pw_gecos),
     dir |-> CStr_from_ptr(mem, pw.pw_dir),
     shell |-> CStr_from_ptr(mem, pw.pw_shell)]

\* InitialAmt with the floor applied only when the hint is unavailable
InitialAmt_floor_if_unknown(h) == IF h < 0 THEN 512 ELSE h

\* let amt = c_long::max(sysconf(_SC_GETPW_R_SIZE_MAX), 512) as usize
InitialAmt(h) == Max(h, 512)

\* Reserve left out: the capacity stays what it was
Reserve_noop(c, a) == c

\* buf.reserve(amt) on a vector of length 0: capacity becomes at least amt,
\* growing to max(2 * capacity, amt) when it was smaller
Reserve(c, a) == IF c >= a THEN c ELSE Max(2 * c, a)

\* ReservePanics for a reserve that accepts any size
ReservePanics_never(a) == FALSE

\* buf.reserve(a) panics ("capacity overflow") when the capacity asked for
\* exceeds isize::MAX
ReservePanics(a) == a > IsizeMax

\* the buffer length handed to the primitive: buf.capacity()
PassedLen(c) == c

\* amt *= 2 on usize
Double(a) == (a * 2) % UsizeModulus

(* ---------------- the lookup primitive (getpwnam_r / getpwuid_r) ---------------- *)
Fields(e) == [name |-> e.name, passwd |-> e.passwd, uid |-> e.uid, gid |-> e.gid,
              gecos |-> e.gecos, dir |-> e.dir, shell |-> e.shell]

\* the entry's strings laid out NUL-terminated in the scratch buffer, and the
\* raw record pointing at them
Pack(e) ==
    LET b1 == e.name \o <<0>>
        b2 == b1 \o e.passwd \o <<0>>
        b3 == b2 \o e.gecos \o <<0>>
        b4 == b3 \o e.dir \o <<0>>
        b5 == b4 \o e.shell \o <<0>>
    IN [mem |-> b5,
        pw |-> [pw_name |-> 1, pw_passwd |-> Len(b1) + 1, pw_uid |-> e.uid,
                pw_gid |-> e.gid, pw_gecos |-> Len(b2) + 1, pw_dir |-> Len(b3) + 1,
                pw_shell |-> Len(b4) + 1]]

Matches(e, k) ==
    IF k.t = "uid" THEN e.uid = k.uid ELSE e.name = CStr_from_ptr(k.name, 1)

\* index of the first entry of d the key selects, 0 when there is none
FindEntry(d, k) ==
    LET hits == {i \in 1..Len(d) : Matches(d[i], k)}
    IN IF hits = {} THEN 0 ELSE CHOOSE i \in hits : \A j \in hits : i <= j

\* what the primitive answers from the database when nothing disturbs it
Answer(k, c) ==
    LET i == FindEntry(db, k)
    IN IF i = 0 THEN [code |-> nfCode, found |-> FALSE, entry |-> NoRec, made |-> TRUE]
       ELSE IF c < db[i].need
            THEN [code |-> ERANGE, found |-> FALSE, entry |-> NoRec, made |-> TRUE]
            ELSE [code |-> 0, found |-> TRUE, entry |-> Fields(db[i]), made |-> TRUE]

Interrupted == [code |-> EINTR, found |-> FALSE, entry |-> NoRec, made |-> TRUE]
Failed(c) == [code |-> c, found |-> FALSE, entry |-> NoRec, made |-> TRUE]

\* errno after a primitive call that returned `code`
ErrnoAfter(old, code) ==
    CASE libcKind = "always" -> code
      [] libcKind = "nonzero" -> IF code # 0 THEN code ELSE old
      [] OTHER -> old

(* ---------------- entry points ---------------- *)
\* the set-up of getpw_r before its loop
Enter(how, raw, k) ==
    /\ pc = "idle"
    /\ entry' = how
    /\ input' = raw
    /\ key' = k
    /\ amt' = InitialAmt(hint)
    /\ cap' = InitialAmt(hint)
    /\ buf' = <<>>
    /\ passwd' = Zeroed
    /\ calls' = 0
    /\ lastResp' = NoResp
    /\ classified' = -1
    /\ result' = Pending
    /\ hist' = <<>>
    /\ clean' = TRUE
    /\ errno0' = errno
    /\ lens' = <<>>
    /\ amtAtCall' = 0
    /\ pc' = "loop"
    /\ UNCHANGED <<envVars, errno, histVars>>

from_uid(u) == Enter("uid", <<>>, UidKey(u))

\* current_user looking up a fixed id instead of the one getuid() reports
current_user_root == Enter("current", <<>>, UidKey(0))

current_user == Enter("current", <<>>, UidKey(myUid))

\* Passwd::from_name(CString::new(bytes)?)
from_name(bytes) ==
    LET c == CString_new(bytes)
    IN IF c.ok
       THEN Enter("name", bytes, NameKey(c.mem))
       ELSE /\ pc = "idle"
            /\ entry' = "name"
            /\ input' = bytes
            /\ key' = NoKey
            /\ calls' = 0
            /\ lastResp' = NoResp
            /\ classified' = -1
            /\ result' = NulError
            /\ hist' = <<>>
            /\ clean' = TRUE
            /\ errno0' = errno
            /\ lens' = <<>>
            /\ amtAtCall' = 0
            /\ pc' = "done"
            /\ UNCHANGED <<envVars, errno, amt, cap, buf, passwd, histVars>>

(* ---------------- one iteration of the loop of getpw_r ---------------- *)
\* Outcome copying the fields only after the scratch buffer was released
Outcome_release_then_parse(resp, e, pw, mem) ==
    IF resp.found
    THEN OkSome(from_c_struct(pw, <<>>))
    ELSE CASE Classify(e) = "none" -> OkNone
           [] Classify(e) = "err" -> Err(e)
           [] OTHER -> Pending

\* Outcome parsing the raw record also when the call reported absence
\* What the code after the call returns: the parsed record when the result
\* pointer is set, else by the errno value e it reads; Pending when it goes
\* round the loop again.  pw and mem are the raw record and the scratch
\* buffer as the call left them.
Outcome_parse_on_absence(resp, e, pw, mem) ==
    IF resp.found
    THEN OkSome(from_c_struct(pw, mem))
    ELSE CASE Classify(e) = "none" -> OkSome(from_c_struct(pw, mem))
           [] Classify(e) = "err" -> Err(e)
           [] OTHER -> Pending

Outcome(resp, e, pw, mem) ==
    IF resp.found
    THEN OkSome(from_c_struct(pw, mem))
    ELSE CASE Classify(e) = "none" -> OkNone
           [] Classify(e) = "err" -> Err(e)
           [] OTHER -> Pending

\* what the primitive answers when offered capacity c: the database's answer,
\* an interruption, or a failure with the given code
Respond(how, code, c) ==
    CASE how = "answered" -> Answer(key, c)
      [] how = "interrupted" -> Interrupted
      [] OTHER -> Failed(code)

Iterate(how, code) ==
    /\ pc = "loop"
    /\ calls < MaxCalls
    /\ IF ReservePanics(amt)
       THEN \* buf.reserve(amt) panics with a capacity overflow
            /\ result' = Panic
            /\ pc' = "done"
            /\ UNCHANGED <<errno, amt, cap, buf, passwd, calls, lastResp, classified,
                           hist, clean, lens, amtAtCall>>
       ELSE LET c2 == Reserve(cap, amt)
                resp == Respond(how, code, PassedLen(c2))
                e == ErrnoAfter(errno, resp.code)
            IN /\ cap' = c2
               /\ lens' = Append(lens, PassedLen(c2))
               /\ amtAtCall' = amt
               /\ calls' = calls + 1
               /\ lastResp' = resp
               /\ errno' = e
               /\ hist' = Append(hist, IF resp.found THEN -1 ELSE resp.code)
               /\ clean' = (clean /\ how = "answered")
               /\ buf' = IF resp.found THEN Pack(resp.entry).mem ELSE buf
               /\ passwd' = IF resp.found THEN Pack(resp.entry).pw ELSE passwd
               /\ classified' = IF resp.found THEN -1 ELSE e
               /\ result' = Outcome(resp, e, passwd', buf')
               /\ pc' = IF result' = Pending THEN "loop" ELSE "done"
               /\ amt' = IF ~resp.found /\ Classify(e) = "grow" THEN Double(amt) ELSE amt
    /\ UNCHANGED <<envVars, entry, input, key, errno0, histVars>>

CallAnswered == Iterate("answered", 0)
CallInterrupted == Iterate("interrupted", EINTR)
CallFailed(code) == Iterate("failed", code)

\* the caller takes the result; the locals of getpw_r are gone
Return ==
    /\ pc = "done"
    /\ pc' = "idle"
    /\ entry' = "none"
    /\ input' = <<>>
    /\ key' = NoKey
    /\ amt' = 0
    /\ cap' = 0
    /\ buf' = <<>>
    /\ passwd' = Zeroed
    /\ calls' = 0
    /\ lastResp' = NoResp
    /\ classified' = -1
    /\ result' = Pending
    /\ hist' = <<>>
    /\ clean' = TRUE
    /\ errno0' = errno
    /\ lens' = <<>>
    /\ amtAtCall' = 0
    /\ IF clean /\ key # NoKey /\ firstKey = NoKey
       THEN firstKey' = key /\ firstResult' = result
       ELSE UNCHANGED <<firstKey, firstResult>>
    /\ UNCHANGED <<envVars, errno>>

\* Anything else the process does between two lookups may leave a code in
\* errno, which Error::last_os_error() of a later lookup reads.
EarlierOperation(c) ==
    /\ pc = "idle"
    /\ errno # c
    /\ errno' = c
    /\ errno0' = c
    /\ UNCHANGED <<envVars, pc, entry, input, key, amt, cap, buf, passwd, result,
                   calls, lastResp, classified, hist, clean, lens, amtAtCall,
                   histVars>>

Next ==
    \/ \E c \in StaleCodes : EarlierOperation(c)
    \/ \E u \in Uids : from_uid(u)
    \/ \E n \in NameInputs : from_name(n)
    \/ current_user
    \/ CallAnswered
    \/ CallInterrupted
    \/ \E c \in FatalCodes : CallFailed(c)
    \/ Return

Spec == Init /\ [][Next]_vars

(* ======================= the claims ======================= *)
\* the running lookup has had an answer from the primitive
Answered == pc # "idle" /\ lastResp.made
\* ... and that answer was not a success
Refused == Answered /\ ~lastResp.found
HasNul(bytes) == 0 \in Range(bytes)

\* C1: whenever the primitive does not report success and the code it
\* reports is in the not-found family, the lookup returns Ok(None), never an
\* error.
C1_NotFoundIsAbsence ==
    (Refused /\ lastResp.code \in NotFoundFamily)
        => (pc = "done" /\ result = OkNone)

\* C2: whenever the primitive does not report success and the code it
\* reports is neither EINTR, nor ERANGE, nor of the not-found family, the
\* lookup returns Err carrying exactly that code, with no further call.
C2_FatalIsVerbatim ==
    (Refused /\ lastResp.code \notin (NotFoundFamily \cup Transient))
        => (pc = "done" /\ result = Err(lastResp.code))

\* C3: whenever the primitive reports success, the lookup returns
\* Ok(Some(record)) at once and the seven fields of the record are the values
\* the primitive wrote in that call, whatever errno holds.
C3_SuccessIsParsed ==
    (Answered /\ lastResp.found)
        => (pc = "done" /\ result = OkSome(lastResp.entry))

\* a success returned while errno holds a stale nonzero code
C3_Witness ==
    /\ Answered /\ lastResp.found /\ errno # 0
    /\ pc = "done" /\ result.kind = "Some" /\ result.rec.dir # result.rec.shell

C5_InterruptionTransparent ==
    (/\ pc # "idle" /\ Len(hist) >= 2
     /\ \A i \in 1..(Len(hist) - 1) : hist[i] = EINTR
     /\ hist[Len(hist)] \notin Transient)
        => result = Outcome(lastResp, ErrnoAfter(errno0, lastResp.code),
                            Pack(lastResp.entry).pw, Pack(lastResp.entry).mem)

\* C6: a lookup answered one or more ERANGEs and then a success returns the
\* record of that success: after ERANGE answers alone it has not returned a
\* value but calls again, and the success that follows is returned as is.
C6_GrowthTransparent ==
    /\ (/\ pc # "idle" /\ Len(hist) >= 1
        /\ \A i \in 1..Len(hist) : hist[i] = ERANGE)
           => result.kind \in {"Pending", "Panic"}
    /\ (/\ pc # "idle" /\ Len(hist) >= 2
        /\ \A i \in 1..(Len(hist) - 1) : hist[i] = ERANGE
        /\ hist[Len(hist)] = -1)
           => result = OkSome(lastResp.entry)

C8_Idempotent ==
    (pc = "done" /\ clean /\ firstKey # NoKey /\ key = firstKey)
        => result = firstResult

\* C9: from_uid of a uid the database holds returns a record r, and
\* from_name(r.name) returns a record equal to r in all seven fields.
C9_UidNameAgree ==
    /\ (pc = "done" /\ clean /\ key.t = "uid" /\ FindEntry(db, key) # 0)
           => result.kind = "Some"
    /\ (/\ pc = "done" /\ clean /\ entry = "name"
        /\ firstKey.t = "uid" /\ firstResult.kind = "Some"
        /\ input = firstResult.rec.name)
           => result = firstResult

\* C10: current_user() is the lookup by uid of the id getuid() reports, and
\* a record it returns carries that id.
C10_CurrentUserIsFromUid ==
    (pc # "idle" /\ entry = "current")
        => /\ key = UidKey(myUid)
           /\ result.kind = "Some" => result.rec.uid = myUid

\* current_user() returned a record
C10_Witness ==
    pc = "done" /\ entry = "current" /\ result.kind = "Some" /\ key.uid = myUid

\* C11: after a call that did not report success, the code getpw_r
\* classifies is the code the primitive reported for that call, whatever
\* errno held before the call.
C11_ClassifiesReportedCode ==
    Refused => classified = lastResp.code

\* C12: every lookup returns one of Found, NotFound or Error, given that the
\* primitive answers EINTR finitely often and ERANGE only below a finite
\* required size (both hold of every run here).  For a finite run that
\* says: an answer other than EINTR and ERANGE ends the lookup on that pass
\* of the loop, and a lookup that ended after a call ended with one of the
\* three outcomes.
C12_Terminates ==
    /\ (Answered /\ (lastResp.found \/ lastResp.code \notin Transient))
           => pc = "done"
    /\ (pc = "done" /\ lastResp.made) => result.kind \in {"Some", "None", "Err"}

\* C13: a record is built only from the raw record that the call of the same
\* pass of the loop reported as a success: never from the zero-initialized
\* raw record nor after a null result; absence and error carry no record.
C13_ParsedOnlyAfterSuccess ==
    /\ result.kind = "Some"
           => /\ Answered /\ lastResp.found
              /\ hist[Len(hist)] = -1
              /\ passwd # Zeroed
              /\ passwd = Pack(lastResp.entry).pw
    /\ (pc # "idle" /\ result.kind \in {"None", "Err"})
           => (Refused /\ result.rec = NoRec)

\* a record returned by a pass that followed passes with a null result
C13_Witness ==
    /\ pc = "done" /\ result.kind = "Some" /\ Len(hist) >= 2
    /\ hist[1] # -1 /\ passwd # Zeroed

\* C14: when the record is returned, the scratch buffer is still the one the
\* successful call wrote into, with the capacity passed to that call and the
\* bytes that call left (not grown, reallocated, reused or freed), and the
\* record is the copy of those bytes; a record the caller keeps is unchanged
\* once the buffer is gone.
C14_ParseThenRelease ==
    /\ (pc = "done" /\ result.kind = "Some")
           => /\ cap = lens[Len(lens)]
              /\ Len(lens) = calls
              /\ buf = Pack(lastResp.entry).mem
              /\ result.rec = from_c_struct(passwd, buf)
    /\ (pc = "idle" /\ firstResult.kind = "Some")
           => /\ buf = <<>>
              /\ \E i \in 1..Len(db) : firstResult.rec = Fields(db[i])

\* a record returned from a buffer that had been grown before the success
C14_Witness ==
    /\ pc = "done" /\ result.kind = "Some"
    /\ Len(lens) >= 2 /\ lens[1] < lens[Len(lens)]
    /\ buf # <<>>

\* C15: after an EINTR answer the next call is made with the same key and
\* the same buffer length as the interrupted one: the interruption changes
\* neither the requested size amt nor the capacity.
C15_InterruptionKeepsArguments ==
    /\ \A i \in 1..(Len(hist) - 1) : hist[i] = EINTR => lens[i + 1] = lens[i]
    /\ (Refused /\ lastResp.code = EINTR /\ pc = "loop")
           => (amt = amtAtCall /\ cap = lens[Len(lens)])

\* C16: after each ERANGE answer the buffer length passed to the next call
\* is double the one passed to the call that answered it, and within one
\* lookup the length passed never decreases.
C16_GrowthDoubles ==
    /\ \A i \in 1..(Len(hist) - 1) : hist[i] = ERANGE => lens[i + 1] = 2 * lens[i]
    /\ \A i \in 1..Len(lens) : \A j \in i..Len(lens) : lens[i] <= lens[j]

\* C17: the first buffer length passed is the size hint when the hint is at
\* least 512, and 512 when the hint is unknown (negative) or below 512; so
\* every length passed to the primitive is at least 512.
C17_InitialCapacity ==
    /\ (pc = "loop" /\ calls = 0) => cap = (IF hint >= 512 THEN hint ELSE 512)
    /\ Len(lens) >= 1 => lens[1] = (IF hint >= 512 THEN hint ELSE 512)
    /\ \A i \in 1..Len(lens) : lens[i] >= 512

\* a call made with the floor although the hint was a positive value below it
C17_Witness ==
    hint = 100 /\ Len(lens) >= 1 /\ lens[1] = 512

\* C18: at every call the buffer length passed is the capacity allocated for
\* the scratch buffer and at least the requested size amt, also in the call
\* right after a growth: the primitive is never offered more than is there.
C18_LengthIsCapacity ==
    (pc # "idle" /\ Len(lens) >= 1)
        => /\ lens[Len(lens)] = cap
           /\ lens[Len(lens)] <= cap
           /\ cap >= amtAtCall

\* a call made right after a growth
C18_Witness ==
    /\ pc # "idle" /\ Len(lens) >= 2
    /\ lens[Len(lens)] > lens[Len(lens) - 1]
    /\ lens[Len(lens)] = amtAtCall

\* C19: doubling on ERANGE never wraps amt to a value that is not larger
\* than the current capacity while the lookup keeps running: after the
\* doubling amt is twice what it was and above the capacity, so the next
\* pass offers a larger buffer or does not call at all.
C19_DoublingDoesNotWrap ==
    (pc = "loop" /\ Refused /\ classified = ERANGE)
        => /\ amt = 2 * amtAtCall
           /\ amt > cap
           /\ amt < UsizeModulus

\* growth reached the limit of the word and the lookup stopped there
C19_Witness ==
    /\ pc = "done" /\ result.kind = "Panic" /\ classified = ERANGE
    /\ amt > IsizeMax /\ amt = 2 * cap
====
